---- MODULE Spec2Model ----
(***************************************************************************)
(* Model of extend.py: the command line front end that validates an        *)
(* extension request (get_args), drives the loop extension engine,         *)
(* transcodes to M4A when asked, copies tags and file dates, and removes   *)
(* the intermediate file (main).                                           *)
(*                                                                         *)
(* Every collaborator call is split into its invocation and its outcome    *)
(* (return or raise) so that the order of calls and returns is observable  *)
(* in the variable trace.                                                  *)
(***************************************************************************)
EXTENDS Integers, Sequences, FiniteSets, TLC

\* ---------------------------------------------------------------- bounds
\* --fade-length values tried: -MaxFade .. MaxFade (and absent)
MaxFade == 1
\* number of distinct file names the engine may choose for its output
NumEngineNames == 1

\* ------------------------------------------------------------ value sets
\* An optional value is a sequence of length 0 (None) or 1.
None == <<>>
Some(v) == <<v>>

\* pathlib.Path, as (parent directory, stem, suffix)
MkPath(parent, stem, suffix) == [parent |-> parent, stem |-> stem, suffix |-> suffix]
NoPath == MkPath("<none>", <<>>, "<none>")

\* A stem is a sequence of name parts, so that the engine can derive its output
\* name from the input's.
InputPaths == { MkPath("music", <<"song">>, ".wav"), MkPath("in", <<"track">>, ".flac") }
OutputDirs == { "out" }

\* format strings as typed on the command line
RawFormats == { "wav", "FLAC", "ogg", "OGG", "mp3", "m4a", "aac" }
Platforms == { "windows", "linux", "darwin" }

\* str.upper() on the strings above
StrUpper(s) ==
    CASE s = "wav" -> "WAV"
      [] s = "ogg" -> "OGG"
      [] s = "mp3" -> "MP3"
      [] s = "m4a" -> "M4A"
      [] s = "aac" -> "AAC"
      [] OTHER -> s

\* str.lower() on the format names
StrLower(s) ==
    CASE s = "WAV" -> "wav"
      [] s = "FLAC" -> "flac"
      [] s = "OGG" -> "ogg"
      [] s = "MP3" -> "mp3"
      [] s = "M4A" -> "m4a"
      [] OTHER -> s

\* choices=(...) of the --format option
FormatChoices == { "WAV", "FLAC", "OGG", "MP3", "M4A" }

\* ProgramArgsNamespace.format
DefaultFormat == "M4A"

\* Path.parent
Parent(p) == p.parent

\* Path.with_suffix(suffix)
WithSuffix(p, suffix) == [p EXCEPT !.suffix = suffix]

\* -------------------------------------------------------------- state
VARIABLES
    pc,               \* position of the program
    argv,             \* the command line and the host platform
    args,             \* the namespace returned by get_args (None before)
    environ,          \* os.environ entries set by the program
    engineArgs,       \* keyword arguments given to LoopExportHandler
    raw_output_path,  \* main's raw_output_path
    output_path,      \* main's output_path
    files,            \* artifact files on disk
    trace,            \* collaborator invocations and their outcomes
    log,              \* records emitted through LOGGER
    exc               \* the exception that ended the process (None if none)

vars == << pc, argv, args, environ, engineArgs, raw_output_path, output_path,
           files, trace, log, exc >>

FadeValues == (0 - MaxFade) .. MaxFade

Argvs ==
    [ input_file_path : InputPaths,
      output_dir : {None} \cup { Some(d) : d \in OutputDirs },
      fade_length : {None} \cup { Some(v) : v \in FadeValues },
      format : {None} \cup { Some(s) : s \in RawFormats },
      show_progress_bar : BOOLEAN,
      interactive : BOOLEAN,
      platform : Platforms ]

Init ==
    /\ pc = "start"
    /\ argv \in Argvs
    /\ args = None
    /\ environ = {}
    /\ engineArgs = None
    /\ raw_output_path = NoPath
    /\ output_path = NoPath
    /\ files = {}
    /\ trace = <<>>
    /\ log = <<>>
    /\ exc = None

\* ------------------------------------------------------------ get_args
\* parser.parse_args: the value of --format after type= and default=
ParsedFormat(a) ==
    IF a.format = None THEN DefaultFormat ELSE StrUpper(a.format[1])

\* get_platform() of utils_python on the host
get_platform(a) == a.platform

\* variant: only negative fade lengths count as invalid
FadeLengthIsZero_NegativeOnly(fade_length) == fade_length # None /\ fade_length[1] < 0

\* args.fade_length == 0
FadeLengthIsZero(fade_length) == fade_length # None /\ fade_length[1] = 0

\* variant: the platform test is dropped
OggUnsupported_AnyPlatform(format, platform) == format = "OGG"

\* args.format == "OGG" and get_platform() == "windows"
OggUnsupported(format, platform) == format = "OGG" /\ platform = "windows"

\* args.output_dir after the default is resolved
ResolvedOutputDir(a) ==
    IF a.output_dir = None THEN Parent(a.input_file_path) ELSE a.output_dir[1]

Namespace(a) ==
    [ input_file_path |-> a.input_file_path,
      output_dir |-> ResolvedOutputDir(a),
      fade_length |-> a.fade_length,
      format |-> ParsedFormat(a),
      show_progress_bar |-> a.show_progress_bar,
      interactive |-> a.interactive ]

Failure(type, origin) == Some([type |-> type, origin |-> origin])

GetArgs ==
    /\ pc = "start"
    /\ IF ParsedFormat(argv) \notin FormatChoices
       THEN /\ pc' = "failed"
            /\ exc' = Failure("SystemExit", "parse_args")
            /\ UNCHANGED << args, environ >>
       ELSE IF FadeLengthIsZero(argv.fade_length)
       THEN /\ pc' = "failed"
            /\ exc' = Failure("ArgumentError", "fade_length")
            /\ UNCHANGED << args, environ >>
       ELSE IF OggUnsupported(ParsedFormat(argv), get_platform(argv))
       THEN /\ pc' = "failed"
            /\ exc' = Failure("ArgumentError", "format")
            /\ UNCHANGED << args, environ >>
       ELSE /\ pc' = "main"
            /\ args' = Some(Namespace(argv))
            /\ environ' = IF argv.interactive
                          THEN environ \cup { "PML_INTERACTIVE_MODE" }
                          ELSE environ
            /\ UNCHANGED exc
    /\ UNCHANGED << argv, engineArgs, raw_output_path, output_path, files, trace, log >>

\* ---------------------------------------------------------------- main
Event(op, ev, a, b) == [op |-> op, ev |-> ev, a |-> a, b |-> b]
LogRecord(level, msg, a, b) == [level |-> level, msg |-> msg, a |-> a, b |-> b]

\* disable_fade_out = args.fade_length is None
DisableFadeOut(fade_length) == fade_length = None

\* variant: max(args.fade_length or 0, 0)
FadeLengthOrZero_ClampNegative(fade_length) ==
    IF fade_length = None \/ fade_length[1] <= 0 THEN 0 ELSE fade_length[1]

\* args.fade_length or 0
FadeLengthOrZero(fade_length) ==
    IF fade_length = None \/ fade_length[1] = 0 THEN 0 ELSE fade_length[1]

\* variant: format_ = args.format
EngineFormat_PassThrough(format) == format

\* format_ : args.format when the engine can write it, WAV otherwise
EngineFormat(format) ==
    IF format \in { "WAV", "FLAC", "OGG", "MP3" } THEN format ELSE "WAV"

\* keyword arguments of LoopExportHandler(...)
HandlerArgs(a) ==
    [ path |-> a.input_file_path,
      output_dir |-> a.output_dir,
      fade_length |-> FadeLengthOrZero(a.fade_length),
      disable_fade_out |-> DisableFadeOut(a.fade_length),
      batch_mode |-> ~a.show_progress_bar,
      format |-> EngineFormat(a.format) ]

\* The file the engine writes: in output_dir, named after the input, with the
\* extension of the format it was asked for.
EngineOutputs(h) ==
    { MkPath(h.output_dir, h.path.stem \o <<"extended", k>>, "." \o StrLower(h.format)) :
        k \in 1 .. NumEngineNames }

EngineErrors == { "LoopNotFoundError", "OSError" }
EncoderErrors == { "ffmpeg.Error", "OSError" }
MetadataErrors == { "UnsupportedFormat", "OSError" }
FiledateErrors == { "OSError" }
UnlinkErrors == { "FileNotFoundError", "PermissionError" }

\* lines 116-134: build the handler and invoke extend_track_runner()
CallEngine ==
    /\ pc = "main"
    /\ engineArgs' = Some(HandlerArgs(args[1]))
    /\ trace' = Append(trace, Event("engine", "call", args[1].input_file_path, NoPath))
    /\ pc' = "engine"
    /\ UNCHANGED << argv, args, environ, raw_output_path, output_path, files, log, exc >>

\* extend_track_runner() returns the path of the file it wrote
EngineReturn ==
    /\ pc = "engine"
    /\ \E p \in EngineOutputs(engineArgs[1]) :
          /\ raw_output_path' = p
          /\ files' = files \cup {p}
          /\ trace' = Append(trace, Event("engine", "ret", p, NoPath))
    /\ pc' = "convert"
    /\ UNCHANGED << argv, args, environ, engineArgs, output_path, log, exc >>

\* variant: a failed extension is tried again
EngineRaise_Retry ==
    /\ pc = "engine"
    /\ \E e \in EngineErrors :
          trace' = Append(trace, Event("engine", e, NoPath, NoPath))
    /\ pc' = "main"
    /\ UNCHANGED << argv, args, environ, engineArgs, raw_output_path, output_path, files, log, exc >>

\* extend_track_runner() raises: nothing in main catches it
EngineRaise ==
    /\ pc = "engine"
    /\ \E e \in EngineErrors :
          /\ trace' = Append(trace, Event("engine", e, NoPath, NoPath))
          /\ exc' = Failure(e, "engine")
    /\ pc' = "failed"
    /\ UNCHANGED << argv, args, environ, engineArgs, raw_output_path, output_path, files, log >>

\* variant: args.format not in ["WAV", "FLAC", "OGG"]
NeedsTranscode_Mp3Too(format) == format \notin { "WAV", "FLAC", "OGG" }

\* if args.format == "M4A"
NeedsTranscode(format) == format = "M4A"

\* raw_output_path.with_suffix("." + args.format.lower())
TranscodedPath(raw, format) == WithSuffix(raw, "." \o StrLower(format))

\* lines 135-149: the M4A branch up to the invocation of cmd.run()
CallEncoder ==
    /\ pc = "convert"
    /\ NeedsTranscode(args[1].format)
    /\ LET out == TranscodedPath(raw_output_path, args[1].format) IN
          /\ output_path' = out
          /\ log' = log \o << LogRecord("INFO", "Converting", raw_output_path, NoPath),
                              LogRecord("INFO", "->", raw_output_path, out),
                              LogRecord("INFO", "cmd", raw_output_path, out) >>
          /\ trace' = Append(trace, Event("encoder", "call", raw_output_path, out))
    /\ pc' = "encoder"
    /\ UNCHANGED << argv, args, environ, engineArgs, raw_output_path, files, exc >>

\* cmd.run() returns: the encoder wrote output_path
EncoderReturn ==
    /\ pc = "encoder"
    /\ files' = files \cup {output_path}
    /\ trace' = Append(trace, Event("encoder", "ret", raw_output_path, output_path))
    /\ pc' = "metadata_call"
    /\ UNCHANGED << argv, args, environ, engineArgs, raw_output_path, output_path, log, exc >>

\* cmd.run() raises; the encoder may leave a partial output file behind.
\* Control enters the except block of line 150.
EncoderRaise ==
    /\ pc = "encoder"
    /\ \E e \in EncoderErrors, partial \in BOOLEAN :
          /\ trace' = Append(trace, Event("encoder", e, raw_output_path, output_path))
          /\ files' = IF partial THEN files \cup {output_path} ELSE files
    /\ pc' = "encoder_except"
    /\ UNCHANGED << argv, args, environ, engineArgs, raw_output_path, output_path, log, exc >>

\* variant: LOGGER.info in the except block
EncoderFailureLog_Info(raw, out) == LogRecord("INFO", "cmd", raw, out)

\* the record emitted by line 151
EncoderFailureLog(raw, out) == LogRecord("ERROR", "cmd", raw, out)

\* line 151: LOGGER.error(<compiled command>)
EncoderLogError ==
    /\ pc = "encoder_except"
    /\ log' = Append(log, EncoderFailureLog(raw_output_path, output_path))
    /\ pc' = "encoder_reraise"
    /\ UNCHANGED << argv, args, environ, engineArgs, raw_output_path, output_path, files, trace, exc >>

\* line 152: the bare raise lets the exception being handled leave main
EncoderReraise ==
    /\ pc = "encoder_reraise"
    /\ exc' = Failure(trace[Len(trace)].ev, "encoder")
    /\ pc' = "failed"
    /\ UNCHANGED << argv, args, environ, engineArgs, raw_output_path, output_path, files, trace, log >>

\* lines 153-154: no transcoding, the raw file is the output
SkipEncoder ==
    /\ pc = "convert"
    /\ ~NeedsTranscode(args[1].format)
    /\ output_path' = raw_output_path
    /\ pc' = "metadata_call"
    /\ UNCHANGED << argv, args, environ, engineArgs, raw_output_path, files, trace, log, exc >>

\* lines 156-160: invoke copy_metadata(input_path, output_path)
CallMetadata ==
    /\ pc = "metadata_call"
    /\ log' = Append(log, LogRecord("INFO", "Attempting to copy metadata",
                                    args[1].input_file_path, output_path))
    /\ trace' = Append(trace, Event("metadata", "call", args[1].input_file_path, output_path))
    /\ pc' = "metadata"
    /\ UNCHANGED << argv, args, environ, engineArgs, raw_output_path, output_path, files, exc >>

MetadataReturn ==
    /\ pc = "metadata"
    /\ trace' = Append(trace, Event("metadata", "ret", args[1].input_file_path, output_path))
    /\ pc' = "filedate_call"
    /\ UNCHANGED << argv, args, environ, engineArgs, raw_output_path, output_path, files, log, exc >>

\* variant: the try block has no except clause
IsCaughtByMetadataHandler_Nothing(e) == FALSE

\* variant: except Exception
IsCaughtByMetadataHandler_Everything(e) == TRUE

\* except UnsupportedFormat
IsCaughtByMetadataHandler(e) == e = "UnsupportedFormat"

\* copy_metadata raises UnsupportedFormat: lines 161-162 log it and go on
MetadataUnsupported ==
    /\ pc = "metadata"
    /\ \E e \in MetadataErrors :
          /\ IsCaughtByMetadataHandler(e)
          /\ trace' = Append(trace, Event("metadata", e, args[1].input_file_path, output_path))
    /\ log' = Append(log, LogRecord("INFO", "Failed to copy metadata", NoPath, NoPath))
    /\ pc' = "filedate_call"
    /\ UNCHANGED << argv, args, environ, engineArgs, raw_output_path, output_path, files, exc >>

\* copy_metadata raises anything else: not caught
MetadataRaise ==
    /\ pc = "metadata"
    /\ \E e \in MetadataErrors :
          /\ ~IsCaughtByMetadataHandler(e)
          /\ trace' = Append(trace, Event("metadata", e, args[1].input_file_path, output_path))
          /\ exc' = Failure(e, "metadata")
    /\ pc' = "failed"
    /\ UNCHANGED << argv, args, environ, engineArgs, raw_output_path, output_path, files, log >>

\* lines 164-165: invoke copy_filedate(input_path, output_path)
CallFiledate ==
    /\ pc = "filedate_call"
    /\ log' = Append(log, LogRecord("INFO", "Copying file dates",
                                    args[1].input_file_path, output_path))
    /\ trace' = Append(trace, Event("filedate", "call", args[1].input_file_path, output_path))
    /\ pc' = "filedate"
    /\ UNCHANGED << argv, args, environ, engineArgs, raw_output_path, output_path, files, exc >>

FiledateReturn ==
    /\ pc = "filedate"
    /\ trace' = Append(trace, Event("filedate", "ret", args[1].input_file_path, output_path))
    /\ pc' = "cleanup"
    /\ UNCHANGED << argv, args, environ, engineArgs, raw_output_path, output_path, files, log, exc >>

\* copy_filedate raises: not caught
FiledateRaise ==
    /\ pc = "filedate"
    /\ \E e \in FiledateErrors :
          /\ trace' = Append(trace, Event("filedate", e, args[1].input_file_path, output_path))
          /\ exc' = Failure(e, "filedate")
    /\ pc' = "failed"
    /\ UNCHANGED << argv, args, environ, engineArgs, raw_output_path, output_path, files, log >>

\* variant: the raw file is always kept
ShouldDeleteRaw_Never(out, raw) == FALSE

\* if output_path != raw_output_path
ShouldDeleteRaw(out, raw) == out # raw

\* lines 167-169: invoke raw_output_path.unlink()
CallUnlink ==
    /\ pc = "cleanup"
    /\ ShouldDeleteRaw(output_path, raw_output_path)
    /\ log' = Append(log, LogRecord("INFO", "Deleting", raw_output_path, NoPath))
    /\ trace' = Append(trace, Event("unlink", "call", raw_output_path, NoPath))
    /\ pc' = "unlink"
    /\ UNCHANGED << argv, args, environ, engineArgs, raw_output_path, output_path, files, exc >>

\* line 167 is false: main returns
SkipUnlink ==
    /\ pc = "cleanup"
    /\ ~ShouldDeleteRaw(output_path, raw_output_path)
    /\ pc' = "done"
    /\ UNCHANGED << argv, args, environ, engineArgs, raw_output_path, output_path, files, trace, log, exc >>

\* unlink() removes the file and main returns
UnlinkReturn ==
    /\ pc = "unlink"
    /\ raw_output_path \in files
    /\ files' = files \ {raw_output_path}
    /\ trace' = Append(trace, Event("unlink", "ret", raw_output_path, NoPath))
    /\ pc' = "done"
    /\ UNCHANGED << argv, args, environ, engineArgs, raw_output_path, output_path, log, exc >>

\* unlink() raises: not caught, the file stays
UnlinkRaise ==
    /\ pc = "unlink"
    /\ \E e \in UnlinkErrors :
          /\ trace' = Append(trace, Event("unlink", e, raw_output_path, NoPath))
          /\ exc' = Failure(e, "unlink")
    /\ pc' = "failed"
    /\ UNCHANGED << argv, args, environ, engineArgs, raw_output_path, output_path, files, log >>

Next ==
    \/ GetArgs
    \/ CallEngine \/ EngineReturn \/ EngineRaise
    \/ CallEncoder \/ EncoderReturn \/ SkipEncoder
    \/ EncoderRaise \/ EncoderLogError \/ EncoderReraise
    \/ CallMetadata \/ MetadataReturn \/ MetadataUnsupported \/ MetadataRaise
    \/ CallFiledate \/ FiledateReturn \/ FiledateRaise
    \/ CallUnlink \/ SkipUnlink \/ UnlinkReturn \/ UnlinkRaise

Spec == Init /\ [][Next]_vars
\* ------------------------------------------------------------ properties
Calls(op) == { i \in DOMAIN trace : trace[i].op = op /\ trace[i].ev = "call" }
Invoked(op) == Calls(op) # {}
IsRaise(e) == e.ev \notin { "call", "ret" }
Recovered(e) == e.op = "metadata" /\ e.ev = "UnsupportedFormat"
Returned(op) == \E i \in DOMAIN trace : trace[i].op = op /\ trace[i].ev = "ret"
Accepted == args # None
RequestFormat == ParsedFormat(argv)
ValidFormat == RequestFormat \in FormatChoices
\* the platform on which the engine cannot write OGG (message of line 107)
LacksOggSupport(platform) == platform = "windows"
Stage(op) ==
    CASE op = "engine" -> 1
      [] op = "encoder" -> 2
      [] op = "metadata" -> 3
      [] op = "filedate" -> 4
      [] op = "unlink" -> 5

\* C1: a request with fade length 0 is rejected by get_args with a validation
\* error; the engine, the encoder, the metadata copy, the file-date copy and the
\* deletion are never invoked and no artifact file is created.
C1_ZeroFadeRejected ==
    (argv.fade_length = Some(0) /\ pc # "start") =>
        /\ pc = "failed"
        /\ exc # None
        /\ exc[1].origin \in { "parse_args", "fade_length" }
        /\ ValidFormat => exc = Failure("ArgumentError", "fade_length")
        /\ ~Accepted
        /\ engineArgs = None
        /\ trace = <<>>
        /\ files = {}

C1_Witness ==
    /\ argv.fade_length = Some(0)
    /\ ValidFormat
    /\ pc = "failed"
    /\ exc = Failure("ArgumentError", "fade_length")

\* C2: OGG on a platform without OGG support is rejected by get_args before the
\* engine is invoked; the format check rejects nothing else: OGG elsewhere and
\* every other format are accepted unless the fade length is 0.
C2_OggRejectedOnlyWithoutSupport ==
    pc # "start" =>
        /\ (RequestFormat = "OGG" /\ LacksOggSupport(argv.platform)) =>
              /\ pc = "failed"
              /\ exc # None
              /\ exc[1].type = "ArgumentError"
              /\ exc[1].origin \in { "fade_length", "format" }
              /\ argv.fade_length # Some(0) => exc[1].origin = "format"
              /\ ~Accepted
              /\ engineArgs = None
              /\ trace = <<>>
        /\ exc = Failure("ArgumentError", "format") =>
              (RequestFormat = "OGG" /\ LacksOggSupport(argv.platform))
        /\ (ValidFormat /\ argv.fade_length # Some(0)
              /\ ~(RequestFormat = "OGG" /\ LacksOggSupport(argv.platform))) => Accepted

C2_Witness ==
    /\ RequestFormat = "OGG"
    /\ LacksOggSupport(argv.platform)
    /\ argv.fade_length # Some(0)
    /\ pc = "failed"
    /\ exc = Failure("ArgumentError", "format")

\* C3: when the format is not M4A the final path is the raw path returned by
\* the engine, the encoder is never invoked and the raw file is never deleted,
\* whatever the metadata copy and the file-date copy do.
C3_NoTranscodeNoDeletion ==
    (Accepted /\ RequestFormat # "M4A") =>
        /\ ~Invoked("encoder")
        /\ ~Invoked("unlink")
        /\ output_path # NoPath => output_path = raw_output_path
        /\ Invoked("metadata") => output_path = raw_output_path /\ output_path # NoPath
        /\ raw_output_path # NoPath => raw_output_path \in files

C3_Witness ==
    /\ Accepted
    /\ RequestFormat = "MP3"
    /\ pc = "done"
    /\ \E i \in DOMAIN trace : Recovered(trace[i])
    /\ output_path = raw_output_path
    /\ raw_output_path \in files

\* C4: when the format is M4A the final path is the raw path with its extension
\* replaced by ".m4a" and differs from the raw path; a run that completes has
\* deleted the raw file; the deletion is invoked only after the tag copy has
\* returned or failed with UnsupportedFormat and the file-date copy has
\* returned; the final artifact is never deleted.
C4_TranscodeThenDelete ==
    (Accepted /\ RequestFormat = "M4A") =>
        /\ output_path # NoPath =>
              /\ output_path = MkPath(raw_output_path.parent, raw_output_path.stem, ".m4a")
              /\ output_path # raw_output_path
        /\ pc = "done" =>
              /\ raw_output_path \notin files
              /\ output_path \in files
              /\ trace[Len(trace)] = Event("unlink", "ret", raw_output_path, NoPath)
        /\ \A i \in DOMAIN trace :
              trace[i].op = "unlink" =>
                 /\ trace[i].a = raw_output_path
                 /\ trace[i].a # output_path
                 /\ \E j, k \in 1 .. (i - 1) :
                       /\ j < k
                       /\ trace[j].op = "metadata"
                       /\ (trace[j].ev = "ret" \/ Recovered(trace[j]))
                       /\ trace[k].op = "filedate"
                       /\ trace[k].ev = "ret"
        /\ Returned("encoder") => output_path \in files

C4_Witness ==
    /\ Accepted
    /\ RequestFormat = "M4A"
    /\ pc = "done"
    /\ raw_output_path \notin files
    /\ output_path \in files
    /\ output_path.suffix = ".m4a"

\* C5: after copy_metadata fails with UnsupportedFormat the run goes on: the
\* file-date copy is invoked next on the same (input, final) pair, and when it
\* returns the cleanup is the usual one (raw deleted exactly when a transcode
\* occurred) and the run ends without error.
C5_UnsupportedFormatIsNotFatal ==
    \A i \in DOMAIN trace :
        Recovered(trace[i]) =>
            /\ pc # "metadata"
            /\ exc # None => exc[1].origin \in { "filedate", "unlink" }
            /\ pc # "filedate_call" =>
                  /\ Len(trace) > i
                  /\ trace[i + 1] = Event("filedate", "call", argv.input_file_path, output_path)
                  /\ trace[i + 1].a = trace[i].a
                  /\ trace[i + 1].b = trace[i].b
            /\ Returned("filedate") =>
                  /\ pc \in { "cleanup", "unlink", "done", "failed" }
                  /\ pc \in { "unlink", "done", "failed" } =>
                        (Invoked("unlink") <=> Invoked("encoder"))
                  /\ pc = "failed" => exc[1].origin = "unlink"
            /\ pc = "done" =>
                  /\ exc = None
                  /\ Returned("unlink") <=> Returned("encoder")
                  /\ Returned("encoder") => raw_output_path \notin files
                  /\ ~Returned("encoder") => raw_output_path \in files

C5_Witness ==
    /\ \E i \in DOMAIN trace : Recovered(trace[i])
    /\ Returned("filedate")
    /\ Returned("unlink")
    /\ pc = "done"
    /\ exc = None

\* C6: every failure other than the metadata copy's UnsupportedFormat ends the
\* run where it happens: it is the last thing that happened, it is the
\* exception that ends the process, and no file produced so far is removed.
C6_OtherFailuresAbort ==
    /\ \A i \in DOMAIN trace :
          (IsRaise(trace[i]) /\ ~Recovered(trace[i])) =>
              /\ i = Len(trace)
              /\ pc \in { "failed", "encoder_except", "encoder_reraise" }
              /\ pc = "failed" => exc = Failure(trace[i].ev, trace[i].op)
    /\ (exc # None /\ exc[1].origin \notin { "parse_args", "fade_length", "format" }) =>
          /\ trace # <<>>
          /\ IsRaise(trace[Len(trace)])
          /\ ~Recovered(trace[Len(trace)])
    /\ exc # None <=> pc = "failed"
    /\ pc \in { "failed", "encoder_except", "encoder_reraise" } =>
          /\ Returned("engine") => raw_output_path \in files
          /\ Returned("encoder") => output_path \in files
          /\ ~Returned("unlink")

C6_Witness ==
    /\ pc = "failed"
    /\ RequestFormat = "M4A"
    /\ exc = Failure("OSError", "filedate")
    /\ raw_output_path \in files
    /\ output_path \in files

\* C7: when the encoder fails, the compiled command has been logged at ERROR
\* level by the time the failure leaves main, the failure that leaves main is
\* the one the encoder raised, and neither the metadata copy, the file-date copy
\* nor the deletion is invoked; the raw file stays.
C7_EncoderFailureLoggedThenReraised ==
    /\ pc = "encoder_reraise" =>
          log[Len(log)] = LogRecord("ERROR", "cmd", raw_output_path, output_path)
    /\ (exc # None /\ exc[1].origin = "encoder") =>
          /\ log # <<>>
          /\ log[Len(log)] = LogRecord("ERROR", "cmd", raw_output_path, output_path)
          /\ trace[Len(trace)].op = "encoder"
          /\ IsRaise(trace[Len(trace)])
          /\ exc[1].type = trace[Len(trace)].ev
    /\ (\E i \in DOMAIN trace : trace[i].op = "encoder" /\ IsRaise(trace[i])) =>
          /\ ~Invoked("metadata")
          /\ ~Invoked("filedate")
          /\ ~Invoked("unlink")
          /\ raw_output_path \in files
          /\ pc \in { "encoder_except", "encoder_reraise", "failed" }
          /\ pc = "failed" => exc # None /\ exc[1].origin = "encoder"

C7_Witness ==
    /\ pc = "failed"
    /\ exc = Failure("ffmpeg.Error", "encoder")
    /\ log[Len(log)].level = "ERROR"

\* C8: the collaborators are invoked in the order engine, encoder, metadata
\* copy, file-date copy, deletion, each at most once, the engine first and
\* exactly once, the encoder only for M4A, and each one only after the one
\* invoked before it has returned.
C8_FixedOrder ==
    /\ \A i, j \in DOMAIN trace :
          (i < j /\ trace[i].ev = "call" /\ trace[j].ev = "call") =>
              Stage(trace[i].op) < Stage(trace[j].op)
    /\ trace # <<>> => trace[1].op = "engine" /\ trace[1].ev = "call"
    /\ pc \notin { "start", "main" } /\ Accepted => Cardinality(Calls("engine")) = 1
    /\ \A op \in { "engine", "encoder", "metadata", "filedate", "unlink" } :
          Cardinality(Calls(op)) <= 1
    /\ Invoked("encoder") => RequestFormat = "M4A"
    /\ \A i \in DOMAIN trace :
          IF trace[i].ev = "call"
          THEN i > 1 =>
                  /\ trace[i - 1].ev # "call"
                  /\ trace[i - 1].ev = "ret" \/ Recovered(trace[i - 1])
          ELSE /\ i > 1
               /\ trace[i - 1].ev = "call"
               /\ trace[i - 1].op = trace[i].op
    /\ (\E i \in DOMAIN trace : trace[i].op = "engine" /\ IsRaise(trace[i])) =>
          Len(trace) = 2

C8_Witness ==
    /\ pc = "done"
    /\ Len(trace) = 10
    /\ trace[1].op = "engine"
    /\ trace[3].op = "encoder"
    /\ trace[5].op = "metadata"
    /\ trace[7].op = "filedate"
    /\ trace[9].op = "unlink"

\* C9: at the engine invocation disable_fade_out is true, and the fade length
\* passed is 0, exactly when the request has no fade length; otherwise
\* disable_fade_out is false and the request's non-zero fade length is passed
\* unchanged.
C9_FadeArguments ==
    engineArgs # None =>
        LET h == engineArgs[1]
            fl == argv.fade_length IN
        /\ h.disable_fade_out <=> fl = None
        /\ h.fade_length = 0 <=> fl = None
        /\ fl # None =>
              /\ fl[1] # 0
              /\ h.fade_length = fl[1]
              /\ ~h.disable_fade_out
        /\ ~(h.fade_length = 0 /\ ~h.disable_fade_out)

C9_Witness ==
    /\ engineArgs # None
    /\ argv.fade_length = Some(0 - 1)
    /\ engineArgs[1].fade_length = 0 - 1
    /\ ~engineArgs[1].disable_fade_out

\* C10 as stated: the format passed to the engine is always WAV or FLAC.
C10_AlwaysLossless ==
    engineArgs # None => engineArgs[1].format \in { "WAV", "FLAC" }

\* C10 amended: the format passed to the engine is the requested one when that
\* is WAV, FLAC, OGG or MP3 and WAV when it is M4A; so the raw artifact is
\* lossless exactly when the requested format is WAV, FLAC or M4A.
C10_LosslessUnlessLossyRequested ==
    engineArgs # None =>
        LET f == engineArgs[1].format IN
        /\ RequestFormat \in { "WAV", "FLAC", "OGG", "MP3" } => f = RequestFormat
        /\ RequestFormat = "M4A" => f = "WAV"
        /\ f \in { "WAV", "FLAC" } <=> RequestFormat \in { "WAV", "FLAC", "M4A" }
        /\ raw_output_path # NoPath =>
              (raw_output_path.suffix \in { ".wav", ".flac" }
                  <=> RequestFormat \in { "WAV", "FLAC", "M4A" })

C10_Witness ==
    /\ engineArgs # None
    /\ RequestFormat = "M4A"
    /\ engineArgs[1].format = "WAV"
    /\ raw_output_path # NoPath
    /\ raw_output_path.suffix = ".wav"
====
